---- MODULE Spec2Model ----
(***************************************************************************)
(* Model of src/pdf_extraction.py: the Flyte pipeline                      *)
(* pdf_wordcloud_pipeline and the four tasks it awaits in sequence         *)
(* (download_pdf, extract_text, generate_wordcloud, generate_report),      *)
(* followed by its inline step that saves the extracted text.              *)
(*                                                                         *)
(* Text is modelled as a sequence of tokens: a token is a word, a run of   *)
(* whitespace, or the watermark "AmericanRhetoric.com".  The HTTP server,  *)
(* the PDF parser, the wordcloud library, the report sink and the file     *)
(* system are external: each call to them either returns or raises.        *)
(***************************************************************************)
EXTENDS Integers, Sequences, FiniteSets, TLC

\* ---------------------------------------------------------------- bounds
MaxPages == 2

\* ------------------------------------------------------------- constants
\* an optional value: None, or Some(x)
None == <<>>
Some(x) == <<x>>
The(opt) == opt[1]

WS  == " "
SEP == "\n\n"
AR  == "AmericanRhetoric.com"

\* "Property of AmericanRhetoric.com" (line 107) and "AmericanRhetoric.com"
\* (lines 108, 111) as token sequences
PropertyOfAR == <<"Property", WS, "of", WS, AR>>
OnlyAR == <<AR>>

IsSpace(t) == t \in {WS, SEP}

\* the order of the awaits and of the inline step in pdf_wordcloud_pipeline
StepOrder ==
  <<"download_pdf", "extract_text", "generate_wordcloud",
    "generate_report", "save_text">>

\* --------------------------------------------------------------- inputs
Urls == {"http://a/x.pdf", "http://b/y.pdf"}

\* final HTTP status of the GET (redirects are followed, line 51)
Statuses == {200, 404, 500}

\* page texts a document may hold
PageTexts ==
  { <<>>,
    <<"hello", WS, "world">>,
    <<"speech", WS, AR>>,
    <<"Property", WS, "of", WS, AR, WS, "end">> }

\* a document body: not a PDF at all, or a PDF with 0..MaxPages pages
Docs == UNION { [1..n -> PageTexts] : n \in 0..MaxPages }
NotPdf == [is_pdf |-> FALSE, doc |-> <<>>]
Bodies == {NotPdf} \cup { [is_pdf |-> TRUE, doc |-> d] : d \in Docs }

\* ------------------------------------------------------- pure functions
\* response.raise_for_status(): raises unless the status is a success
IsSuccess(status) == status >= 200 /\ status <= 299

HasPrefix(s, pat) ==
  /\ Len(pat) <= Len(s)
  /\ SubSeq(s, 1, Len(pat)) = pat

\* str.replace(pat, ""): left to right, non-overlapping
RECURSIVE Replace(_, _)
Replace(s, pat) ==
  IF s = <<>> THEN <<>>
  ELSE IF HasPrefix(s, pat)
       THEN Replace(SubSeq(s, Len(pat) + 1, Len(s)), pat)
       ELSE <<Head(s)>> \o Replace(Tail(s), pat)

\* "\n\n".join(parts)
RECURSIVE Join(_)
Join(parts) ==
  IF parts = <<>> THEN <<>>
  ELSE IF Len(parts) = 1 THEN parts[1]
  ELSE parts[1] \o <<SEP>> \o Join(Tail(parts))

\* len(text.split()): the number of maximal runs of non-space tokens
RECURSIVE WordCount(_)
WordCount(s) ==
  IF s = <<>> THEN 0
  ELSE IF IsSpace(Head(s)) THEN WordCount(Tail(s))
  ELSE IF Len(s) = 1 \/ IsSpace(s[2]) THEN 1 + WordCount(Tail(s))
  ELSE WordCount(Tail(s))

\* the dict built by extract_text from an opened document
ExtractResult(doc) ==
  [ pages |-> [ i \in 1..Len(doc) |->
                  [ page_number |-> i,
                    text |-> Replace(doc[i], OnlyAR),
                    char_count |-> Len(doc[i]) ] ],
    metadata |-> [ page_count |-> Len(doc) ],
    full_text |-> Replace(Replace(Join(doc), PropertyOfAR), OnlyAR) ]

\* the summary string of generate_report, kept as its two numbers
Summary(extracted) ==
  [ words |-> WordCount(extracted.full_text),
    pages |-> extracted.metadata.page_count ]

\* ---------------------------------------------------------------- state
VARIABLES
  pdf_url,         \* argument of pdf_wordcloud_pipeline
  response,        \* what the server answers to GET pdf_url
  pc,              \* the step the pipeline is at, or "returned" / "raised"
  awaiting,        \* TRUE while the task of the current step is running
  pdf_file,        \* result of download_pdf
  extracted_data,  \* result of extract_text
  wordcloud_file,  \* result of generate_wordcloud
  summary,         \* result of generate_report
  output,          \* the PipelineOutput returned, or None
  started,         \* history: steps started, in order
  completed        \* history: steps that completed successfully, in order

vars ==
  <<pdf_url, response, pc, awaiting, pdf_file, extracted_data,
    wordcloud_file, summary, output, started, completed>>

data == <<pdf_file, extracted_data, wordcloud_file, summary, output>>

Init ==
  /\ pdf_url \in Urls
  /\ response \in [status : Statuses, content : Bodies]
  /\ pc = "download_pdf"
  /\ awaiting = FALSE
  /\ pdf_file = None
  /\ extracted_data = None
  /\ wordcloud_file = None
  /\ summary = None
  /\ output = None
  /\ started = <<>>
  /\ completed = <<>>


\* ---------------------------------------------------------- control flow
\* the statement that follows `step` in pdf_wordcloud_pipeline
Successor(step) ==
  IF step = "save_text" THEN "returned"
  ELSE LET i == CHOOSE k \in 1..Len(StepOrder) : StepOrder[k] = step
       IN StepOrder[i + 1]

\* variant: a failed step is swallowed and the pipeline carries on
AfterStepSwallow(step, ok) == Successor(step)

\* where the pipeline goes once `step` has returned (ok) or raised (~ok):
\* an exception in an awaited task propagates out of the pipeline
AfterStep(step, ok) == IF ok THEN Successor(step) ELSE "raised"

\* the awaited task of the current step returns or raises
Finish(step, ok) ==
  /\ pc' = AfterStep(step, ok)
  /\ awaiting' = FALSE
  /\ completed' = IF ok THEN Append(completed, step) ELSE completed
  /\ UNCHANGED <<pdf_url, response, started>>

\* -------------------------------------------------------------- actions
\* the pipeline reaches `await <task>(...)` and the task starts
CallTask ==
  /\ pc \in {"download_pdf", "extract_text", "generate_wordcloud",
             "generate_report"}
  /\ ~awaiting
  /\ awaiting' = TRUE
  /\ started' = Append(started, pc)
  /\ UNCHANGED <<pdf_url, response, pc, completed>>
  /\ UNCHANGED data

\* GET the url, raise on a transport error or a non-success status, else
\* store the body in a temporary file and return it as a File
download_pdf ==
  /\ pc = "download_pdf" /\ awaiting
  /\ \E transport_ok \in BOOLEAN :
       LET ok == transport_ok /\ IsSuccess(response.status) IN
       /\ pdf_file' = IF ok
                      THEN Some([suffix |-> ".pdf",
                                 content |-> response.content])
                      ELSE pdf_file
       /\ Finish("download_pdf", ok)
  /\ UNCHANGED <<extracted_data, wordcloud_file, summary, output>>

\* open the file as a PDF (raises when it is not one) and collect the pages
extract_text ==
  /\ pc = "extract_text" /\ awaiting
  /\ LET body == The(pdf_file).content
         ok == body.is_pdf
     IN
     /\ extracted_data' = IF ok THEN Some(ExtractResult(body.doc))
                          ELSE extracted_data
     /\ Finish("extract_text", ok)
  /\ UNCHANGED <<pdf_file, wordcloud_file, summary, output>>

\* hand the text to the wordcloud library (which returns an image or
\* raises), save the figure as wordcloud.png and return it as a File
generate_wordcloud ==
  /\ pc = "generate_wordcloud" /\ awaiting
  /\ \E lib_ok \in BOOLEAN :
       /\ wordcloud_file' = IF lib_ok
                            THEN Some([path |-> "wordcloud.png",
                                       of |-> The(extracted_data).full_text])
                            ELSE wordcloud_file
       /\ Finish("generate_wordcloud", lib_ok)
  /\ UNCHANGED <<pdf_file, extracted_data, summary, output>>

\* read the image, build and log the report, return the summary
generate_report ==
  /\ pc = "generate_report" /\ awaiting
  /\ \E io_ok \in BOOLEAN :
       /\ summary' = IF io_ok THEN Some(Summary(The(extracted_data)))
                     ELSE summary
       /\ Finish("generate_report", io_ok)
  /\ UNCHANGED <<pdf_file, extracted_data, wordcloud_file, output>>

\* step 5 and the return: write full_text to extracted_text.txt, wrap it
\* in a File and return the PipelineOutput
save_text ==
  /\ pc = "save_text" /\ ~awaiting
  /\ \E io_ok \in BOOLEAN :
       /\ output' = IF io_ok
                    THEN Some(
                         [ summary |-> The(summary),
                           extracted_text |->
                             [path |-> "extracted_text.txt",
                              content |-> The(extracted_data).full_text],
                           wordcloud_image |-> The(wordcloud_file) ])
                    ELSE output
       /\ pc' = AfterStep("save_text", io_ok)
       /\ started' = Append(started, "save_text")
       /\ completed' = IF io_ok THEN Append(completed, "save_text")
                       ELSE completed
  /\ UNCHANGED <<pdf_url, response, awaiting, pdf_file, extracted_data,
                 wordcloud_file, summary>>

Next ==
  \/ CallTask
  \/ download_pdf
  \/ extract_text
  \/ generate_wordcloud
  \/ generate_report
  \/ save_text

Spec == Init /\ [][Next]_vars

\* ------------------------------------------------------------ properties
IsPrefix(s, t) == Len(s) <= Len(t) /\ s = SubSeq(t, 1, Len(s))

TypeOK ==
  /\ pc \in {"returned", "raised"} \cup {StepOrder[i] : i \in 1..Len(StepOrder)}
  /\ awaiting \in BOOLEAN
  /\ pdf_url \in Urls

\* C10: the steps start in the order download_pdf, extract_text,
\* generate_wordcloud, generate_report, save_text; a step starts only when
\* every earlier step has completed successfully; a PipelineOutput exists
\* only when all five steps succeeded; and once a step has failed the
\* pipeline has raised, no later step is ever started and there is no
\* PipelineOutput.
C10_PipelineOrdering ==
  /\ IsPrefix(started, StepOrder)
  /\ IsPrefix(completed, StepOrder)
  /\ Len(completed) <= Len(started)
  /\ Len(started) <= Len(completed) + 1
  /\ (Len(started) = Len(completed) + 1) = (awaiting \/ pc = "raised")
  /\ (output # None) = (pc = "returned")
  /\ pc = "returned" => completed = StepOrder
  /\ pc = "raised" => output = None /\ ~awaiting
  /\ ~IsSuccess(response.status)
       => (completed = <<>> /\ pdf_file = None /\ Len(started) <= 1)

\* the pipeline returned a PipelineOutput after all five steps
C10_Witness ==
  /\ pc = "returned"
  /\ output # None
  /\ started = StepOrder
  /\ completed = StepOrder

====
